---- MODULE Spec2Model ----
(***************************************************************************)
(* Model of pandar_pointcloud/src/lib/rawdata.cc: the Pandar40 packet      *)
(* decoder RawData (setParameters, setup, setupOffline, parseRawData,      *)
(* computeXYZIR, toPointClouds, unpack).                                   *)
(*                                                                         *)
(* Units.  The code computes in double/float; the model computes in        *)
(* integers on fixed-point grids:                                          *)
(*   distances and offsets     millimetres  (range * 0.002 m = range*2 mm) *)
(*   azimuth, azimuthCorrection  0.01 degree units                         *)
(*   cosVertCorrection, sinVertCorrection   fifths  (5 = 1.0)              *)
(*   sine and cosine           thousandths (1000 = 1.0)                    *)
(* so x and y are in mm*5*1000 and z in mm*5.  A coordinate is a record    *)
(* [nan, v]: nan = TRUE is the float NaN.                                  *)
(***************************************************************************)
EXTENDS Integers, Sequences, FiniteSets, TLC

\* ------------------------------------------------------------------------
\* Sizes of the wire layout (rawdata.h).  LASER_COUNT and BLOCKS_PER_PACKET
\* are 40 and 6 on the device; the model is checked on a scaled-down packet.
\* ------------------------------------------------------------------------
LASER_COUNT == 2

BLOCKS_PER_PACKET == 2

SOB_ANGLE_SIZE == 4

RAW_MEASURE_SIZE == 5

RESERVE_SIZE == 8

REVOLUTION_SIZE == 2

TIMESTAMP_SIZE == 4

FACTORY_ID_SIZE == 2

BLOCK_SIZE == RAW_MEASURE_SIZE * LASER_COUNT + SOB_ANGLE_SIZE

INFO_SIZE == TIMESTAMP_SIZE + FACTORY_ID_SIZE + RESERVE_SIZE + REVOLUTION_SIZE

PACKET_SIZE == BLOCK_SIZE * BLOCKS_PER_PACKET + INFO_SIZE

ROTATION_MAX_UNITS == 36000

\* The literals of parseRawData's filter.
SENTINEL_RANGE == 65793

SENTINEL_REFLECTIVITY == 257

MAX_RAW_RANGE == 100000

Blocks == 0 .. (BLOCKS_PER_PACKET - 1)

Lasers == 0 .. (LASER_COUNT - 1)

\* ------------------------------------------------------------------------
\* Values
\* ------------------------------------------------------------------------
NaN == [nan |-> TRUE, v |-> 0]

Num(v) == [nan |-> FALSE, v |-> v]

\* pcl_isnan
pcl_isnan(c) == c.nan

\* buf[index] & 0xff, index counted from 0 as in the code
Byte(b, index) == b[index + 1] % 256

RECURSIVE ToLE(_, _)
\* the n bytes of v, least significant first (how the device writes a field)
ToLE(v, n) == IF n = 0 THEN <<>> ELSE <<v % 256>> \o ToLE(v \div 256, n - 1)

\* ------------------------------------------------------------------------
\* Input packets.  A buffer of the wire size is BLOCKS_PER_PACKET blocks and
\* the tail.  The buffers are the plain one, the plain one with one field
\* replaced (one block's azimuth, or one measurement), and the ones with
\* that field replaced everywhere.
\* ------------------------------------------------------------------------
\* start-of-block marker 0xEEFF
SobBytes == <<255, 238>>

\* a return at about 50 m, different for every block and channel
PlainMeasure(i, j) == ToLE(25000 + 10 * i + j, 3) \o ToLE(4660 + 256 * j, 2)

\* the measurements that replace a plain one: the sentinel pair
\* (0x010101, 0x0101); 100001, just over the 200 m limit; 100000, the limit
\* itself; the sentinel's range with another reflectivity (0x0201)
SpecialMeasures ==
    { <<1, 1, 1, 1, 1>>,
      ToLE(100001, 3) \o ToLE(4660, 2),
      ToLE(100000, 3) \o ToLE(4660, 2),
      <<1, 1, 1>> \o ToLE(513, 2) }

\* 90 degrees
PlainAzimuth == 90 * 100

\* 35999 is the last azimuth unit of a revolution, 36000 the first past it
SpecialAzimuths == {0, 35999, 36000}

\* A buffer is described by the azimuth of every block and the bytes of every
\* measurement.
PlainLayout ==
    [ az |-> [i \in Blocks |-> PlainAzimuth],
      m |-> [i \in Blocks |-> [j \in Lasers |-> PlainMeasure(i, j)]] ]

Layouts ==
    {PlainLayout}
        \cup {[PlainLayout EXCEPT !.az[i] = a] : i \in Blocks, a \in SpecialAzimuths}
        \cup {[PlainLayout EXCEPT !.m[i][j] = sm] :
                 i \in Blocks, j \in Lasers, sm \in SpecialMeasures}
        \cup {[PlainLayout EXCEPT !.az = [i \in Blocks |-> a]] : a \in SpecialAzimuths}
        \cup {[PlainLayout EXCEPT !.m = [i \in Blocks |-> [j \in Lasers |-> sm]]] :
                 sm \in SpecialMeasures}

RECURSIVE MeasureBytes(_, _, _)
\* the bytes of channels j.. of block i
MeasureBytes(lay, i, j) ==
    IF j = LASER_COUNT THEN <<>> ELSE lay.m[i][j] \o MeasureBytes(lay, i, j + 1)

\* reserved bytes, revolution 0x0539, timestamp 0x01020304, factory 0x42 0x37
TailBytes ==
    [k \in 1 .. RESERVE_SIZE |-> 160 + k] \o ToLE(1337, 2) \o ToLE(16909060, 4) \o <<66, 55>>

RECURSIVE BufferBytes(_, _)
\* the bytes of blocks i.. and the tail
BufferBytes(lay, i) ==
    IF i = BLOCKS_PER_PACKET THEN TailBytes
    ELSE SobBytes \o ToLE(lay.az[i], 2) \o MeasureBytes(lay, i, 0) \o BufferBytes(lay, i + 1)

\* every buffer of the wire size
SizedBuffers == {BufferBytes(lay, 0) : lay \in Layouts}

PlainBuffer == BufferBytes(PlainLayout, 0)

\* buffers of another size: empty, one byte short, one byte long
MissizedBuffers ==
    { <<>>, SubSeq(PlainBuffer, 1, PACKET_SIZE - 1), PlainBuffer \o <<0>> }

Buffers == SizedBuffers \cup MissizedBuffers

\* ------------------------------------------------------------------------
\* raw_packet_t
\* ------------------------------------------------------------------------
ZeroMeasure == [range |-> 0, reflectivity |-> 0]

ZeroPacket ==
    [ blocks |-> [i \in 1 .. BLOCKS_PER_PACKET |->
                    [ sob |-> 0, azimuth |-> 0,
                      measures |-> [j \in 1 .. LASER_COUNT |-> ZeroMeasure] ]],
      revolution |-> 0, timestamp |-> 0, factory |-> <<0, 0>> ]

\* ------------------------------------------------------------------------
\* RawData::parseRawData
\* ------------------------------------------------------------------------
\* ParseMeasure with the limit not halved (200 * 1000 instead of 200 * 1000 / 2)
ParseMeasure_LimitNotHalved(b, index) ==
    LET range == Byte(b, index) + Byte(b, index + 1) * 256 + Byte(b, index + 2) * 65536
        reflectivity == Byte(b, index + 3) + Byte(b, index + 4) * 256
    IN  IF (range = SENTINEL_RANGE /\ reflectivity = SENTINEL_REFLECTIVITY)
            \/ range > 2 * MAX_RAW_RANGE
        THEN [range |-> 0, reflectivity |-> 0]
        ELSE [range |-> range, reflectivity |-> reflectivity]

\* ParseMeasure with the reflectivity's two bytes in the other order
ParseMeasure_BytesSwapped(b, index) ==
    LET range == Byte(b, index) + Byte(b, index + 1) * 256 + Byte(b, index + 2) * 65536
        reflectivity == Byte(b, index + 3) * 256 + Byte(b, index + 4)
    IN  IF (range = SENTINEL_RANGE /\ reflectivity = SENTINEL_REFLECTIVITY)
            \/ range > MAX_RAW_RANGE
        THEN [range |-> 0, reflectivity |-> 0]
        ELSE [range |-> range, reflectivity |-> reflectivity]

\* lines 159-170: one measurement read at index, with the filter
ParseMeasure(b, index) ==
    LET range == Byte(b, index) + Byte(b, index + 1) * 256 + Byte(b, index + 2) * 65536
        reflectivity == Byte(b, index + 3) + Byte(b, index + 4) * 256
    IN  IF (range = SENTINEL_RANGE /\ reflectivity = SENTINEL_REFLECTIVITY)
            \/ range > MAX_RAW_RANGE
        THEN [range |-> 0, reflectivity |-> 0]
        ELSE [range |-> range, reflectivity |-> reflectivity]

RECURSIVE ParseMeasures(_, _, _)
\* lines 157-172: the loop over j; gives the measures and the index after it
ParseMeasures(b, index, j) ==
    IF j = LASER_COUNT THEN [measures |-> <<>>, index |-> index]
    ELSE LET rest == ParseMeasures(b, index + RAW_MEASURE_SIZE, j + 1)
         IN  [ measures |-> <<ParseMeasure(b, index)>> \o rest.measures,
               index |-> rest.index ]

RECURSIVE ParseBlocks(_, _, _)
\* lines 151-173: the loop over i; gives the blocks and the index after it
ParseBlocks(b, index, i) ==
    IF i = BLOCKS_PER_PACKET THEN [blocks |-> <<>>, index |-> index]
    ELSE LET sob == Byte(b, index) + Byte(b, index + 1) * 256
             azimuth == Byte(b, index + 2) + Byte(b, index + 3) * 256
             ms == ParseMeasures(b, index + SOB_ANGLE_SIZE, 0)
             rest == ParseBlocks(b, ms.index, i + 1)
         IN  [ blocks |-> << [sob |-> sob, azimuth |-> azimuth,
                              measures |-> ms.measures] >> \o rest.blocks,
               index |-> rest.index ]

\* lines 144-147: the return value, the destination as it was, no byte read
SizeMismatch(pkt) == [ret |-> -1, packet |-> pkt, index |-> 0, last_read |-> -1]

\* lines 149-186: the return value, the packet written, the final value of
\* index and the highest buffer index read
Decode(b) ==
    LET bs == ParseBlocks(b, 0, 0)
        i1 == bs.index + RESERVE_SIZE
        i2 == i1 + REVOLUTION_SIZE
        i3 == i2 + TIMESTAMP_SIZE
    IN  [ ret |-> 0,
          packet |->
            [ blocks |-> bs.blocks,
              revolution |-> Byte(b, i1) + Byte(b, i1 + 1) * 256,
              timestamp |-> Byte(b, i2) + Byte(b, i2 + 1) * 256
                              + Byte(b, i2 + 2) * 65536 + Byte(b, i2 + 3) * 16777216,
              factory |-> <<Byte(b, i3), Byte(b, i3 + 1)>> ],
          index |-> i3 + FACTORY_ID_SIZE,
          last_read |-> i3 + 1 ]

\* parseRawData refusing only the buffers that are too short
parseRawData_ShortOnly(pkt, b, len) ==
    IF len < PACKET_SIZE THEN SizeMismatch(pkt) ELSE Decode(b)

\* The whole function.
parseRawData(pkt, b, len) ==
    IF len # PACKET_SIZE THEN SizeMismatch(pkt) ELSE Decode(b)

\* a packet decoded earlier, as a destination may still hold it
StalePacket == parseRawData(ZeroPacket, PlainBuffer, PACKET_SIZE).packet

\* ------------------------------------------------------------------------
\* Calibration (pandar_pointcloud::Calibration, calibration.cc) and the
\* lookup tables
\* ------------------------------------------------------------------------
Correction(az, dist, vert, horiz, cosv, sinv) ==
    [ azimuthCorrection |-> az, distanceCorrection |-> dist,
      verticalOffsetCorrection |-> vert, horizontalOffsetCorrection |-> horiz,
      cosVertCorrection |-> cosv, sinVertCorrection |-> sinv ]

\* Entries a calibration file can hold: a level laser without offsets; a
\* laser at the 3-4-5 elevation with an azimuth correction of -1.04 degrees
\* and offsets; a level laser with a distance correction of 60 m.
CorrectionEntries ==
    << Correction(0, 0, 0, 0, 5, 0),
       Correction(-104, 0, 100, -20, 4, 3),
       Correction(0, 60000, 0, 0, 5, 0) >>

\* the k-th calibration table: channel j gets entry j + k (cyclically)
CorrectionTable(k) ==
    [j \in 1 .. LASER_COUNT |-> CorrectionEntries[((j - 1 + k) % Len(CorrectionEntries)) + 1]]

\* a table never read from a file: all fields zero, or left over
UnreadTables ==
    { [j \in 1 .. LASER_COUNT |-> Correction(0, 0, 0, 0, 0, 0)], CorrectionTable(0) }

DefaultCalibrationFile == "params/Lidar-Correction-18.csv"

\* the files setup can be pointed at; the last two cannot be read (one does
\* not exist, one holds no row)
CalibrationFiles == {DefaultCalibrationFile, "a.csv", "missing.csv", "empty.csv"}

\* Calibration::read: a readable file sets initialized and the entries; any
\* other leaves the entries and clears initialized
read(cal, file) ==
    CASE file = DefaultCalibrationFile ->
            [initialized |-> TRUE, laser_corrections |-> CorrectionTable(1)]
      [] file = "a.csv" ->
            [initialized |-> TRUE, laser_corrections |-> CorrectionTable(0)]
      [] OTHER -> [cal EXCEPT !.initialized = FALSE]

\* Sine and cosine in thousandths of an angle in 0.01 degree units, the
\* angle cut to whole degrees (Bhaskara's rational form on 0..180 degrees).
\* The pair is never (0, 0), as for the float pair.
HalfSine(x) == (4000 * x * (180 - x)) \div (40500 - x * (180 - x))

SinMilli(a) ==
    LET deg == (a % 36000) \div 100
    IN  IF deg <= 180 THEN HalfSine(deg) ELSE 0 - HalfSine(deg - 180)

CosMilli(a) == SinMilli(a + 9000)

Trig(a) == [nan |-> FALSE, cos |-> CosMilli(a), sin |-> SinMilli(a)]

\* What a slot of the lookup tables that setup has not written can hold, and
\* what a read past the tables' end can return: a NaN, zeros, another slot.
IndeterminateTrig ==
    { [nan |-> TRUE, cos |-> 0, sin |-> 0],
      [nan |-> FALSE, cos |-> 0, sin |-> 0],
      [nan |-> FALSE, cos |-> 1000, sin |-> 0] }

\* ------------------------------------------------------------------------
\* Config (min_range, max_range in mm; angles in 0.01 degree units)
\* ------------------------------------------------------------------------
\* the windows a caller sets: [0.5 m, 100 m] and [0 m, 200 m]
RangeWindows == { <<500, 100000>>, <<0, 200000>> }

\* view_direction and view_width: a full turn, and a half turn ahead
Views == { <<0, 36000>>, <<0, 18000>> }

\* C's fmod on the 0.01 degree grid: the result has the sign of a
fmod(a, m) == IF a >= 0 THEN a % m ELSE 0 - ((0 - a) % m)

\* fmod(fmod(a, 2*M_PI) + 2*M_PI, 2*M_PI)
PositiveModulo(a) == fmod(fmod(a, 36000) + 36000, 36000)

VARIABLES
    config_,        \* RawData::config_
    calibration_,   \* RawData::calibration_
    lookup_filled,  \* whether setup has written cos_lookup_table_ / sin_lookup_table_
    setup_ret,      \* what the last setup or setupOffline returned ("none": never called)
    call,           \* the decode call whose arguments and results the caller holds
    buf,            \* the buffer of that call
    packet_in,      \* parseRawData's destination before the call
    packet,         \* the RawPacket after the call
    ret,            \* parseRawData's return value
    last_read,      \* the highest buffer index parseRawData read
    pc_in,          \* the output cloud before the call
    pc,             \* the output cloud after the call
    computed,       \* every computeXYZIR evaluation of the call, in call order
    emitted,        \* <<block, channel>> of every point the call appended, in order
    repeat          \* the cloud an earlier unpack of the same arguments gave

vars == << config_, calibration_, lookup_filled, setup_ret, call, buf, packet_in,
           packet, ret, last_read, pc_in, pc, computed, emitted, repeat >>

persistent == << config_, calibration_, lookup_filled, setup_ret >>

transient == << buf, packet_in, packet, ret, last_read, pc_in, pc, computed, emitted, repeat >>

\* ------------------------------------------------------------------------
\* RawData::computeXYZIR
\* ------------------------------------------------------------------------
\* cos_lookup_table_[azimuth], sin_lookup_table_[azimuth] (lines 203-204):
\* a slot setup wrote holds the angle's cosine and sine; any other read
\* gives g, an indeterminate value
TableRead(azimuth, g) ==
    IF lookup_filled /\ azimuth >= 0 /\ azimuth < ROTATION_MAX_UNITS
    THEN Trig(azimuth)
    ELSE g

\* a product with a table value: NaN when the value is
Mul(c, t) == IF t.nan THEN NaN ELSE Num(c)

\* the window test with the limits themselves outside
OutOfWindow_Inclusive(distanceM) ==
    distanceM <= config_.min_range \/ distanceM >= config_.max_range

\* line 196
OutOfWindow(distanceM) ==
    distanceM < config_.min_range \/ distanceM > config_.max_range

\* The point (x, y, z, intensity), with what the function went through:
\* table_index is the index it read the tables at (-1: no read) and trig the
\* cosine and sine it used (Trig(0) when it returned at line 199).
computeXYZIR(azimuth, laserReturn, correction, g) ==
    LET distanceM == laserReturn.range * 2
        intensity == laserReturn.reflectivity \div 256
    IN  IF OutOfWindow(distanceM)
        THEN [ x |-> NaN, y |-> NaN, z |-> NaN, intensity |-> intensity,
               table_index |-> -1, trig |-> Trig(0) ]
        ELSE
          LET t == IF correction.azimuthCorrection = 0
                   THEN TableRead(azimuth, g)
                   ELSE Trig(azimuth + correction.azimuthCorrection)
              corrected == distanceM + correction.distanceCorrection
              xyDistance == corrected * correction.cosVertCorrection
              h == correction.horizontalOffsetCorrection * 5
              x == Mul(xyDistance * t.sin - h * t.cos, t)
              y == Mul(xyDistance * t.cos + h * t.sin, t)
              z == Num(corrected * correction.sinVertCorrection
                         + correction.verticalOffsetCorrection * 5)
              origin == /\ ~x.nan /\ x.v = 0
                        /\ ~y.nan /\ y.v = 0
                        /\ z.v = 0
          IN  [ x |-> IF origin THEN NaN ELSE x,
                y |-> IF origin THEN NaN ELSE y,
                z |-> IF origin THEN NaN ELSE z,
                intensity |-> intensity,
                table_index |-> IF correction.azimuthCorrection = 0 THEN azimuth ELSE -1,
                trig |-> t ]

\* ------------------------------------------------------------------------
\* RawData::toPointClouds
\* ------------------------------------------------------------------------
PPoint(xyzir, ring) ==
    [x |-> xyzir.x, y |-> xyzir.y, z |-> xyzir.z, intensity |-> xyzir.intensity, ring |-> ring]

\* the append with the ring counted from 1
Push_RingFromOne(cloud, xyzir, j) ==
    [points |-> Append(cloud.points, PPoint(xyzir, j + 1)), width |-> cloud.width + 1]

\* lines 239-241: xyzir.ring = j; pc.points.push_back(xyzir); pc.width++
Push(cloud, xyzir, j) ==
    [points |-> Append(cloud.points, PPoint(xyzir, j)), width |-> cloud.width + 1]

\* lines 232-241: one pass of the inner loop; acc is the cloud so far with
\* the record of the call
LaserStep(acc, i, j, firing_data, g) ==
    LET xyzir == computeXYZIR(firing_data.azimuth, firing_data.measures[j + 1],
                              calibration_.laser_corrections[j + 1], g)
        seen == Append(acc.computed,
                       [ block |-> i, channel |-> j, azimuth |-> firing_data.azimuth,
                         laserReturn |-> firing_data.measures[j + 1],
                         correction |-> calibration_.laser_corrections[j + 1],
                         xyzir |-> xyzir ])
    IN  IF pcl_isnan(xyzir.x) \/ pcl_isnan(xyzir.y) \/ pcl_isnan(xyzir.z)
        THEN [acc EXCEPT !.computed = seen]
        ELSE [ pc |-> Push(acc.pc, xyzir, j),
               computed |-> seen,
               emitted |-> Append(acc.emitted, <<i, j>>) ]

RECURSIVE LaserLoop(_, _, _, _, _)
LaserLoop(acc, i, j, firing_data, g) ==
    IF j = LASER_COUNT THEN acc
    ELSE LaserLoop(LaserStep(acc, i, j, firing_data, g), i, j + 1, firing_data, g)

RECURSIVE BlockLoop(_, _, _, _)
BlockLoop(acc, i, pkt, g) ==
    IF i = BLOCKS_PER_PACKET THEN acc
    ELSE BlockLoop(LaserLoop(acc, i, 0, pkt.blocks[i + 1], g), i + 1, pkt, g)

\* g is what the indeterminate table reads of the call give
toPointClouds(pkt, cloud, g) ==
    BlockLoop([pc |-> cloud, computed |-> <<>>, emitted |-> <<>>], 0, pkt, g)

\* the values an indeterminate table read with these azimuths can give (one
\* value, never used, when every read is of a slot setup wrote)
TableGarbageAt(azimuths) ==
    IF lookup_filled /\ \A a \in azimuths : a >= 0 /\ a < ROTATION_MAX_UNITS
    THEN {Trig(0)}
    ELSE IndeterminateTrig

\* the same for a call on pkt
TableGarbage(pkt) == TableGarbageAt({pkt.blocks[i + 1].azimuth : i \in Blocks})

\* ------------------------------------------------------------------------
\* What callers pass
\* ------------------------------------------------------------------------
EmptyCloud == [points |-> <<>>, width |-> 0]

\* a cloud that already holds a point of an earlier packet
UsedCloud ==
    [ points |-> << [x |-> Num(1), y |-> Num(2), z |-> Num(3), intensity |-> 7, ring |-> 0] >>,
      width |-> 1 ]

InputClouds == {EmptyCloud, UsedCloud}

\* what a raw_packet_t that nothing has written can hold: zeros, or the
\* packet decoded before it in the same memory
IndeterminatePackets == {ZeroPacket, StalePacket}

\* arguments of a direct computeXYZIR call: azimuths at and around the end of
\* a revolution, ranges at and around the window limits
ArgAzimuths == {0, 9000, 35999, 36000}

ArgMeasures ==
    { [range |-> r, reflectivity |-> 4660] : r \in {0, 249, 250, 25000, 50000, 50001, 100000} }

ArgCorrections ==
    {CorrectionEntries[k] : k \in 1 .. Len(CorrectionEntries)} \cup {Correction(0, 0, 0, 0, 0, 0)}

\* ------------------------------------------------------------------------
\* The state after construction: config_ and calibration_.laser_corrections
\* hold whatever the constructor left, the tables are not written.
\* ------------------------------------------------------------------------
Init ==
    /\ \E w \in RangeWindows :
          config_ = [ min_range |-> w[1], max_range |-> w[2],
                      tmp_min_angle |-> 18000, tmp_max_angle |-> 18000,
                      min_angle |-> 0, max_angle |-> 36000,
                      calibrationFile |-> "" ]
    /\ \E t \in UnreadTables :
          calibration_ = [initialized |-> FALSE, laser_corrections |-> t]
    /\ lookup_filled = FALSE
    /\ setup_ret = <<>>
    /\ call = "none"
    /\ buf = <<>>
    /\ packet_in = ZeroPacket
    /\ packet = ZeroPacket
    /\ ret = 0
    /\ last_read = -1
    /\ pc_in = EmptyCloud
    /\ pc = EmptyCloud
    /\ computed = <<>>
    /\ emitted = <<>>
    /\ repeat = <<>>

\* ------------------------------------------------------------------------
\* RawData::setParameters
\* ------------------------------------------------------------------------
setParameters(min_range, max_range, view_direction, view_width) ==
    LET tmp_min_angle == PositiveModulo(view_direction + view_width \div 2)
        tmp_max_angle == PositiveModulo(view_direction - view_width \div 2)
        min_angle == 36000 - tmp_min_angle
        max_angle == 36000 - tmp_max_angle
    IN  /\ call = "none"
        /\ config_' = [ config_ EXCEPT
                          !.min_range = min_range,
                          !.max_range = max_range,
                          !.tmp_min_angle = tmp_min_angle,
                          !.tmp_max_angle = tmp_max_angle,
                          !.min_angle = IF min_angle = max_angle THEN 0 ELSE min_angle,
                          !.max_angle = IF min_angle = max_angle THEN 36000 ELSE max_angle ]
        /\ UNCHANGED << calibration_, lookup_filled, setup_ret, call, transient >>

\* ------------------------------------------------------------------------
\* RawData::setup and RawData::setupOffline
\* ------------------------------------------------------------------------
\* lines 93-108 and 126-139: read the file, fail or fill the tables
ReadAndFill(cfg) ==
    LET cal == read(calibration_, cfg.calibrationFile)
    IN  /\ config_' = cfg
        /\ calibration_' = cal
        /\ lookup_filled' = (lookup_filled \/ cal.initialized)
        /\ setup_ret' = IF cal.initialized THEN <<0>> ELSE <<-1>>
        /\ UNCHANGED << call, transient >>

\* param: the node's "calibration" parameter, "unset" when it has none
setup(param) ==
    /\ call = "none"
    /\ ReadAndFill([config_ EXCEPT !.calibrationFile =
                       IF param = "unset" THEN DefaultCalibrationFile ELSE param])

setupOffline(calibration_file, max_range_, min_range_) ==
    /\ call = "none"
    /\ ReadAndFill([config_ EXCEPT !.max_range = max_range_,
                                   !.min_range = min_range_,
                                   !.calibrationFile = calibration_file])

\* ------------------------------------------------------------------------
\* The decode calls
\* ------------------------------------------------------------------------
\* parseRawData(&packet, buf, len) on a destination the caller holds
ParseRawData(p0, b) ==
    LET r == parseRawData(p0, b, Len(b))
    IN  /\ call = "none"
        /\ call' = "parseRawData"
        /\ buf' = b
        /\ packet_in' = p0
        /\ packet' = r.packet
        /\ ret' = r.ret
        /\ last_read' = r.last_read
        /\ UNCHANGED << persistent, pc_in, pc, computed, emitted, repeat >>

\* toPointClouds(&packet, pc) on the packet of the parseRawData call before
ToPointClouds(cloud) ==
    /\ call = "parseRawData"
    /\ \E g \in TableGarbage(packet) :
          LET r == toPointClouds(packet, cloud, g)
          IN  /\ pc_in' = cloud
              /\ pc' = r.pc
              /\ computed' = r.computed
              /\ emitted' = r.emitted
    /\ call' = "toPointClouds"
    /\ UNCHANGED << persistent, buf, packet_in, packet, ret, last_read, repeat >>

\* a direct computeXYZIR(point, azimuth, laserReturn, correction)
ComputeXYZIR(azimuth, laserReturn, correction) ==
    /\ call = "none"
    /\ \E g \in TableGarbageAt({azimuth}) :
          computed' = << [ block |-> 0, channel |-> 0, azimuth |-> azimuth,
                           laserReturn |-> laserReturn, correction |-> correction,
                           xyzir |-> computeXYZIR(azimuth, laserReturn, correction, g) ] >>
    /\ call' = "computeXYZIR"
    /\ UNCHANGED << persistent, buf, packet_in, packet, ret, last_read, pc_in, pc,
                    emitted, repeat >>

\* lines 255-257: the local packet is not initialized; parseRawData's return
\* value is dropped; toPointClouds runs on the packet whatever it returned
unpack(b, cloud) ==
    \E p0 \in IndeterminatePackets :
       LET parsed == parseRawData(p0, b, Len(b))
       IN  \E g \in TableGarbage(parsed.packet) :
              LET r == toPointClouds(parsed.packet, cloud, g)
              IN  /\ buf' = b
                  /\ packet' = parsed.packet
                  /\ ret' = parsed.ret
                  /\ last_read' = parsed.last_read
                  /\ pc_in' = cloud
                  /\ pc' = r.pc
                  /\ computed' = r.computed
                  /\ emitted' = r.emitted
                  /\ call' = "unpack"
                  /\ UNCHANGED << persistent, packet_in >>

Unpack(b, cloud) ==
    /\ call = "none"
    /\ unpack(b, cloud)
    /\ repeat' = <<>>

\* the caller decodes the same buffer once more into an equal cloud
UnpackAgain ==
    /\ call = "unpack"
    /\ repeat = <<>>
    /\ unpack(buf, pc_in)
    /\ repeat' = <<pc>>

\* the call's packet and cloud go out of scope
Release ==
    /\ call # "none"
    /\ call' = "none"
    /\ buf' = <<>>
    /\ packet_in' = ZeroPacket
    /\ packet' = ZeroPacket
    /\ ret' = 0
    /\ last_read' = -1
    /\ pc_in' = EmptyCloud
    /\ pc' = EmptyCloud
    /\ computed' = <<>>
    /\ emitted' = <<>>
    /\ repeat' = <<>>
    /\ UNCHANGED persistent

Next ==
    \/ \E w \in RangeWindows, v \in Views : setParameters(w[1], w[2], v[1], v[2])
    \/ \E param \in CalibrationFiles \cup {"unset"} : setup(param)
    \/ \E f \in CalibrationFiles, w \in RangeWindows : setupOffline(f, w[2], w[1])
    \/ \E p0 \in IndeterminatePackets, b \in Buffers : ParseRawData(p0, b)
    \/ \E cloud \in InputClouds : ToPointClouds(cloud)
    \/ \E az \in ArgAzimuths, m \in ArgMeasures, c \in ArgCorrections : ComputeXYZIR(az, m, c)
    \/ \E b \in Buffers, cloud \in InputClouds : Unpack(b, cloud)
    \/ UnpackAgain
    \/ Release

Spec == Init /\ [][Next]_vars

\* ========================================================================
\* The claims
\* ========================================================================
RECURSIVE LittleEndian(_, _, _)
\* the unsigned little-endian integer in the n bytes of b from offset at
LittleEndian(b, at, n) ==
    IF n = 0 THEN 0 ELSE b[at + 1] + 256 * LittleEndian(b, at + 1, n - 1)

\* the layout as the specification states it
BlockAt(i) == i * (4 + LASER_COUNT * 5)

MeasureAt(i, j) == BlockAt(i) + 4 + j * 5

TailAt == BLOCKS_PER_PACKET * (4 + LASER_COUNT * 5) + RESERVE_SIZE

WireRange(b, i, j) == LittleEndian(b, MeasureAt(i, j), 3)

WireReflectivity(b, i, j) == LittleEndian(b, MeasureAt(i, j) + 3, 2)

\* the sentinel pair, or a range over 100000
WireInvalid(b, i, j) ==
    \/ WireRange(b, i, j) = 65793 /\ WireReflectivity(b, i, j) = 257
    \/ WireRange(b, i, j) > 100000

\* a point marked invalid: a coordinate is NaN
Invalid(xyzir) == xyzir.x.nan \/ xyzir.y.nan \/ xyzir.z.nan

Emitted == {emitted[k] : k \in DOMAIN emitted}

\* C1: unpack of a buffer whose length is not the wire size appends no point
\* to the cloud and leaves its width as it was.  (Stated for the decoder
\* after a successful setup, where every table and calibration entry the
\* call reads has been written.)
C1_MissizedPacketRejected ==
    (call = "unpack" /\ setup_ret = <<0>> /\ Len(buf) # PACKET_SIZE)
        => (pc.points = pc_in.points /\ pc.width = pc_in.width)

\* C2: setup on a calibration source that is empty or missing returns -1, and
\* no decode call after a failed setup appends a point.
C2_NoDecodeAfterFailedSetup ==
    /\ (setup_ret # <<>> /\ config_.calibrationFile \in {"missing.csv", "empty.csv"})
          => setup_ret = <<-1>>
    /\ (setup_ret = <<-1>> /\ call \in {"unpack", "toPointClouds"})
          => pc = pc_in

\* C3: parseRawData on a buffer whose length is not the wire size returns -1
\* and leaves the destination packet as it was; on a buffer of the wire size
\* it returns 0.
C3_SizeMismatchLeavesPacket ==
    call = "parseRawData"
        => IF Len(buf) # PACKET_SIZE
           THEN ret = -1 /\ packet = packet_in
           ELSE ret = 0

\* C3's case: a buffer one byte short or long, a destination that holds an
\* earlier packet, and the call has returned
C3_Witness ==
    /\ call = "parseRawData"
    /\ Len(buf) # PACKET_SIZE
    /\ Len(buf) > 0
    /\ packet_in = StalePacket
    /\ ret = -1

\* C4: after a successful parseRawData, every measurement whose wire values
\* are the sentinel pair (0x010101, 0x0101) or whose wire range is over
\* 100000 is decoded as range 0, reflectivity 0, at every block and channel.
C4_InvalidReturnsZeroed ==
    (call = "parseRawData" /\ ret = 0)
        => \A i \in Blocks, j \in Lasers :
              WireInvalid(buf, i, j)
                  => packet.blocks[i + 1].measures[j + 1] = [range |-> 0, reflectivity |-> 0]

\* C4's case: an over-range return in the last channel of the last block
C4_Witness ==
    /\ call = "parseRawData"
    /\ ret = 0
    /\ WireRange(buf, BLOCKS_PER_PACKET - 1, LASER_COUNT - 1) > 100000
    /\ packet.blocks[BLOCKS_PER_PACKET].measures[LASER_COUNT].range = 0

\* C5: after a successful parseRawData every field is the unsigned
\* little-endian integer at its offset of the layout (block i at
\* i*(4 + LASER_COUNT*5): start-of-block, azimuth; channel j at 4 + j*5 in
\* the block: range, reflectivity; after the blocks and the reserved bytes:
\* revolution, timestamp, factory bytes), a measurement that is not a
\* sentinel or over-range return keeps its wire values, and the last byte
\* read is the buffer's last.
C5_LittleEndianLayout ==
    (call = "parseRawData" /\ ret = 0)
        => /\ \A i \in Blocks :
                /\ packet.blocks[i + 1].sob = LittleEndian(buf, BlockAt(i), 2)
                /\ packet.blocks[i + 1].azimuth = LittleEndian(buf, BlockAt(i) + 2, 2)
           /\ \A i \in Blocks, j \in Lasers :
                ~WireInvalid(buf, i, j)
                    => packet.blocks[i + 1].measures[j + 1] =
                          [ range |-> WireRange(buf, i, j),
                            reflectivity |-> WireReflectivity(buf, i, j) ]
           /\ packet.revolution = LittleEndian(buf, TailAt, 2)
           /\ packet.timestamp = LittleEndian(buf, TailAt + 2, 4)
           /\ packet.factory = <<buf[TailAt + 7], buf[TailAt + 8]>>
           /\ last_read = Len(buf) - 1

\* C5's case: the plain packet's last measurement and tail have been decoded
C5_Witness ==
    /\ call = "parseRawData"
    /\ ret = 0
    /\ packet.blocks[BLOCKS_PER_PACKET].measures[LASER_COUNT].range
          = 25000 + 10 * (BLOCKS_PER_PACKET - 1) + (LASER_COUNT - 1)
    /\ packet.blocks[BLOCKS_PER_PACKET].measures[LASER_COUNT].reflectivity
          = 4660 + 256 * (LASER_COUNT - 1)
    /\ packet.timestamp = 16909060
    /\ packet.revolution = 1337

\* C6 as stated: the point computeXYZIR gives is marked invalid if and only
\* if range*0.002 is below min_range or above max_range.
C6_InvalidIffOutOfWindow ==
    \A k \in DOMAIN computed :
        Invalid(computed[k].xyzir)
            <=> \/ computed[k].laserReturn.range * 2 < config_.min_range
                \/ computed[k].laserReturn.range * 2 > config_.max_range

\* the coordinates of lines 217-219 are all zero
AtOrigin(c) ==
    LET corrected == c.laserReturn.range * 2 + c.correction.distanceCorrection
        xyDistance == corrected * c.correction.cosVertCorrection
        h == c.correction.horizontalOffsetCorrection * 5
    IN  /\ xyDistance * c.xyzir.trig.sin - h * c.xyzir.trig.cos = 0
        /\ xyDistance * c.xyzir.trig.cos + h * c.xyzir.trig.sin = 0
        /\ corrected * c.correction.sinVertCorrection
              + c.correction.verticalOffsetCorrection * 5 = 0

\* C6 amended: the point is marked invalid if and only if range*0.002 (before
\* distanceCorrection is added) is below min_range or above max_range, or the
\* corrected coordinates are x = y = z = 0, or the cosine and sine read from
\* the lookup table are NaN.
C6_InvalidIffOutOfWindowOrOrigin ==
    \A k \in DOMAIN computed :
        LET c == computed[k]
            outside == \/ c.laserReturn.range * 2 < config_.min_range
                       \/ c.laserReturn.range * 2 > config_.max_range
        IN  Invalid(c.xyzir) <=> (outside \/ c.xyzir.trig.nan \/ AtOrigin(c))

\* C6's case: a valid point whose distance is inside the window before the
\* correction and outside it after
C6_Witness ==
    \E k \in DOMAIN computed :
        /\ ~Invalid(computed[k].xyzir)
        /\ computed[k].laserReturn.range * 2 <= config_.max_range
        /\ computed[k].laserReturn.range * 2 + computed[k].correction.distanceCorrection
              > config_.max_range

\* C7: toPointClouds appends in block-major, channel-minor order; the ring of
\* an appended point is the channel it was computed from; a point is appended
\* exactly when none of its coordinates is NaN; the points the cloud held
\* before stay in place.
C7_FiringOrder ==
    call \in {"toPointClouds", "unpack"}
        => /\ Len(pc.points) = Len(pc_in.points) + Len(emitted)
           /\ SubSeq(pc.points, 1, Len(pc_in.points)) = pc_in.points
           /\ \A a, b \in DOMAIN emitted :
                a < b => \/ emitted[a][1] < emitted[b][1]
                         \/ emitted[a][1] = emitted[b][1] /\ emitted[a][2] < emitted[b][2]
           /\ \A k \in DOMAIN emitted :
                /\ pc.points[Len(pc_in.points) + k].ring = emitted[k][2]
                /\ \E n \in DOMAIN computed :
                     /\ <<computed[n].block, computed[n].channel>> = emitted[k]
                     /\ pc.points[Len(pc_in.points) + k].x = computed[n].xyzir.x
                     /\ pc.points[Len(pc_in.points) + k].y = computed[n].xyzir.y
                     /\ pc.points[Len(pc_in.points) + k].z = computed[n].xyzir.z
           /\ Len(computed) = BLOCKS_PER_PACKET * LASER_COUNT
           /\ \A n \in DOMAIN computed :
                /\ computed[n].block = (n - 1) \div LASER_COUNT
                /\ computed[n].channel = (n - 1) % LASER_COUNT
                /\ (<<computed[n].block, computed[n].channel>> \in Emitted)
                      <=> ~Invalid(computed[n].xyzir)

\* C7's case: a toPointClouds call on a cloud that held a point, which
\* skipped a point of the first block and appended points of the first and of
\* the last block
C7_Witness ==
    /\ call = "toPointClouds"
    /\ pc_in = UsedCloud
    /\ \E n \in DOMAIN computed : computed[n].block = 0 /\ Invalid(computed[n].xyzir)
    /\ \E k \in DOMAIN emitted : emitted[k][1] = 0
    /\ \E k \in DOMAIN emitted : emitted[k] = <<BLOCKS_PER_PACKET - 1, LASER_COUNT - 1>>

\* C8: unpack of a buffer of the wire size raises no error, and no
\* measurement that the parser zeroed (sentinel pair or over-range) gives a
\* point of the cloud, whatever the range window and the calibration read by
\* a successful setup.
C8_ZeroedNeverAppended ==
    (call = "unpack" /\ setup_ret = <<0>> /\ Len(buf) = PACKET_SIZE)
        => /\ ret = 0
           /\ \A i \in Blocks, j \in Lasers :
                WireInvalid(buf, i, j) => <<i, j>> \notin Emitted

\* C9: after a successful setup, a second unpack of the same buffer (of any
\* length), with the same calibration and range window, into an equal cloud
\* gives the same cloud as the first.
C9_SameBufferSameCloud ==
    (call = "unpack" /\ setup_ret = <<0>> /\ repeat # <<>>) => pc = repeat[1]

\* C10: for a buffer of the wire size, every index at which a decode call
\* reads the sine/cosine tables that setup filled is in
\* 0 .. ROTATION_MAX_UNITS - 1 (the block's azimuth, read for a channel with a
\* zero azimuthCorrection and a distance inside the window).
C10_TableIndexInside ==
    (call \in {"unpack", "toPointClouds"} /\ setup_ret = <<0>> /\ Len(buf) = PACKET_SIZE)
        => \A n \in DOMAIN computed :
              computed[n].xyzir.table_index # -1
                  => /\ computed[n].xyzir.table_index >= 0
                     /\ computed[n].xyzir.table_index < 36000

====
